---- MODULE Spec2Model ----
(***************************************************************************)
(* A model of the CoAP message codec and request dispatcher of coap.c:     *)
(* coap_parse, coap_build, coap_make_response, coap_handle_request and     *)
(* coap_build_endpoints.  Buffers are sequences of bytes; a C index i is   *)
(* element i+1 of the sequence.  A byte view {p, len} is kept as the       *)
(* offset p of its first byte in the buffer it points into.                *)
(***************************************************************************)
EXTENDS Integers, Sequences, FiniteSets, TLC

VARIABLES pc,          \* position of the calling program
          pkt,         \* codec: the packet handed to coap_build
          cap,         \* codec: the capacity *buflen handed to coap_build
          built,       \* codec: what coap_build did
          wire,        \* codec: the datagram handed to coap_parse
          parsed,      \* codec: what coap_parse did
          endpoints,   \* dispatcher and link format: the endpoint table
          scratch,     \* dispatcher: the caller's scratch buffer
          inpkt,       \* dispatcher: the parsed request
          outpkt,      \* dispatcher: the caller's response packet
          handled,     \* dispatcher: what coap_handle_request did
          linkcap,     \* link format: the capacity buflen
          linked       \* link format: what coap_build_endpoints did

vars == <<pc, pkt, cap, built, wire, parsed, endpoints, scratch, inpkt,
          outpkt, handled, linkcap, linked>>

codecVars == <<pkt, cap, built, wire, parsed>>
dispatchVars == <<scratch, inpkt, outpkt, handled>>
linkVars == <<linkcap, linked>>

(***************************************************************************)
(* Constants of coap.h and of the C environment.                           *)
(***************************************************************************)
MAXOPT == 16
HDR_SIZE == 4
NULL == -1
COAP_OPTION_URI_PATH == 11
COAP_OPTION_CONTENT_FORMAT == 12
COAP_TYPE_ACK == 2
COAP_RSPCODE_NOT_FOUND == 132
COAP_CONTENTTYPE_NONE == -1

COAP_SUCCESS == "COAP_SUCCESS"
COAP_ERR_HEADER_TOO_SHORT == "COAP_ERR_HEADER_TOO_SHORT"
COAP_ERR_VERSION_NOT_1 == "COAP_ERR_VERSION_NOT_1"
COAP_ERR_TOKEN_TOO_SHORT == "COAP_ERR_TOKEN_TOO_SHORT"
COAP_ERR_OPTION_TOO_SHORT_FOR_HEADER == "COAP_ERR_OPTION_TOO_SHORT_FOR_HEADER"
COAP_ERR_OPTION_OVERRUNS_PACKET == "COAP_ERR_OPTION_OVERRUNS_PACKET"
COAP_ERR_OPTION_TOO_BIG == "COAP_ERR_OPTION_TOO_BIG"
COAP_ERR_OPTION_LEN_INVALID == "COAP_ERR_OPTION_LEN_INVALID"
COAP_ERR_OPTION_DELTA_INVALID == "COAP_ERR_OPTION_DELTA_INVALID"
COAP_ERR_BUFFER_TOO_SMALL == "COAP_ERR_BUFFER_TOO_SMALL"
COAP_ERR_UNSUPPORTED == "COAP_ERR_UNSUPPORTED"

ParseErrors ==
  { COAP_ERR_HEADER_TOO_SHORT, COAP_ERR_VERSION_NOT_1,
    COAP_ERR_TOKEN_TOO_SHORT, COAP_ERR_OPTION_TOO_SHORT_FOR_HEADER,
    COAP_ERR_OPTION_OVERRUNS_PACKET, COAP_ERR_OPTION_TOO_BIG,
    COAP_ERR_OPTION_LEN_INVALID, COAP_ERR_OPTION_DELTA_INVALID }

(***************************************************************************)
(* Integer widths.                                                         *)
(***************************************************************************)
U8(x) == x % 256
U16(x) == x % 65536

\* (uint32_t)x for x > -2^32.  A negative x wraps to 2^32 + x, which is
\* beyond the integers TLC computes with; for the differences of option
\* numbers taken here it is at least 2^32 - 65535 and is kept as Wrapped,
\* which like it exceeds every value _option_nibble compares it with.
Wrapped == 2147483647
U32(x) == IF x < 0 THEN Wrapped ELSE x

\* The value of buf[i].  A read outside the buffer is undefined behaviour;
\* every read is recorded in the rd set of the result, so the value given
\* here for such a read (0) is one of the bytes the read could yield.
Rd(buf, i) == IF i >= 0 /\ i < Len(buf) THEN buf[i + 1] ELSE 0

\* The bytes of the view {p, len} of buf.
View(buf, v) == IF v.len = 0 THEN << >> ELSE SubSeq(buf, v.p + 1, v.p + v.len)

Fill(n, b) == [i \in 1..n |-> b]

(***************************************************************************)
(* The variables before the call they belong to: zeroed structures.  A     *)
(* specification of one part of the library leaves the variables of the    *)
(* other parts at these values.                                            *)
(***************************************************************************)
BlankHdr == [ver |-> 0, t |-> 0, tkl |-> 0, code |-> 0, id |-> 0]
BlankView == [p |-> NULL, len |-> 0]
BlankPacket ==
  [hdr |-> BlankHdr, tok |-> << >>, opts |-> << >>, payload |-> << >>]
BlankBuilt ==
  [rc |-> COAP_SUCCESS, out |-> << >>, buflen |-> 0, hpos |-> << >>]
BlankParsed ==
  [rc |-> COAP_SUCCESS, hdr |-> BlankHdr, tok |-> BlankView, numopts |-> 0,
   opts |-> << >>, payload |-> BlankView, rd |-> {}, hpos |-> << >>,
   stop |-> 0]
BlankOut ==
  [hdr |-> BlankHdr, tok |-> << >>, numopts |-> 0,
   opts0 |-> [num |-> 0, p |-> NULL, len |-> 0], payload |-> BlankView]
BlankHandled ==
  [rc |-> COAP_SUCCESS, calls |-> << >>, mrc |-> COAP_SUCCESS,
   outpkt0 |-> BlankOut, scratch0 |-> << >>]
BlankLinked == [rc |-> COAP_SUCCESS, mem |-> << >>, hi |-> 0]

IdleCodec ==
  /\ pkt = BlankPacket /\ cap = 0 /\ built = BlankBuilt /\ wire = << >>
  /\ parsed = BlankParsed
IdleDispatch ==
  /\ scratch = << >> /\ inpkt = BlankPacket /\ outpkt = BlankOut
  /\ handled = BlankHandled
IdleLinks == linkcap = 0 /\ linked = BlankLinked

\* A call that wrote past the end of its buffer has undefined behaviour:
\* it returns what it computes when the memory behind the buffer takes the
\* bytes (r), or the program faults.
FAULT == "FAULT"
Outcomes(r, overflowed) ==
  IF overflowed THEN {r, [r EXCEPT !.rc = FAULT]} ELSE {r}

(***************************************************************************)
(* coap_parse                                                              *)
(***************************************************************************)
\* _parse_header.  The bit-fields tkl:4, t:2, ver:2 are laid out from the
\* least significant bit; id is read in host (little-endian) order.
ParseHeader(buf, buflen) ==
  IF buflen < HDR_SIZE
  THEN [rc |-> COAP_ERR_HEADER_TOO_SHORT, hdr |-> BlankHdr, rd |-> {}]
  ELSE LET b0 == Rd(buf, 0)
           hdr == [ver |-> b0 \div 64, t |-> (b0 \div 16) % 4, tkl |-> b0 % 16,
                   code |-> Rd(buf, 1), id |-> Rd(buf, 2) + 256 * Rd(buf, 3)]
       IN [rc |-> IF hdr.ver # 1 THEN COAP_ERR_VERSION_NOT_1 ELSE COAP_SUCCESS,
           hdr |-> hdr, rd |-> 0..(HDR_SIZE - 1)]

\* _parse_token
ParseToken(tkl, buflen) ==
  IF HDR_SIZE + tkl > buflen \/ tkl > 8
  THEN [rc |-> COAP_ERR_TOKEN_TOO_SHORT, tok |-> BlankView]
  ELSE [rc |-> COAP_SUCCESS,
        tok |-> [p |-> IF tkl = 0 THEN NULL ELSE HDR_SIZE, len |-> tkl]]

\* The test "buflen < headlen" that guards each extension of an option header.
HeaderShortOffByOne(buflen, headlen) == buflen < headlen - 1
HeaderShort(buflen, headlen) == buflen < headlen

\* One nibble of an option header, decoded at cursor p (the byte before the
\* extension bytes): the uint16_t value, the cursor and headlen after it.
ParseNibble(buf, nib, p, headlen, buflen, invalid) ==
  IF nib = 13 THEN
    IF HeaderShort(buflen, headlen + 1)
    THEN [rc |-> COAP_ERR_OPTION_TOO_SHORT_FOR_HEADER, rd |-> {}]
    ELSE [rc |-> COAP_SUCCESS, val |-> U16(Rd(buf, p + 1) + 13), p |-> p + 1,
          headlen |-> headlen + 1, rd |-> {p + 1}]
  ELSE IF nib = 14 THEN
    IF HeaderShort(buflen, headlen + 2)
    THEN [rc |-> COAP_ERR_OPTION_TOO_SHORT_FOR_HEADER, rd |-> {}]
    ELSE [rc |-> COAP_SUCCESS,
          val |-> U16(Rd(buf, p + 1) * 256 + Rd(buf, p + 2) + 269),
          p |-> p + 2, headlen |-> headlen + 2, rd |-> {p + 1, p + 2}]
  ELSE IF nib = 15 THEN [rc |-> invalid, rd |-> {}]
  ELSE [rc |-> COAP_SUCCESS, val |-> nib, p |-> p, headlen |-> headlen, rd |-> {}]

\* _parse_option, called with *buf = p0, buflen bytes left and the running
\* delta.  On success: the option, the new cursor and the new running delta.
ParseOption(buf, p0, buflen, running) ==
  IF HeaderShort(buflen, 1)
  THEN [rc |-> COAP_ERR_OPTION_TOO_SHORT_FOR_HEADER, rd |-> {}]
  ELSE
    LET b0 == Rd(buf, p0)
        d == ParseNibble(buf, b0 \div 16, p0, 1, buflen,
                         COAP_ERR_OPTION_DELTA_INVALID)
    IN IF d.rc # COAP_SUCCESS THEN [rc |-> d.rc, rd |-> {p0} \cup d.rd]
       ELSE
         LET l == ParseNibble(buf, b0 % 16, d.p, d.headlen, buflen,
                              COAP_ERR_OPTION_LEN_INVALID)
             rd == {p0} \cup d.rd \cup l.rd
         IN IF l.rc # COAP_SUCCESS THEN [rc |-> l.rc, rd |-> rd]
            ELSE IF l.p + 1 + l.val > p0 + buflen
            THEN [rc |-> COAP_ERR_OPTION_TOO_BIG, rd |-> rd]
            ELSE [rc |-> COAP_SUCCESS,
                  option |-> [num |-> d.val + running, p |-> l.p + 1,
                              len |-> l.val],
                  next |-> l.p + 1 + l.val,
                  running |-> U16(running + d.val),
                  rd |-> rd]

\* The first conjunct of the option loop's condition.
SlotFreeOffByOne(optionIndex) == optionIndex <= MAXOPT
SlotFree(optionIndex) == optionIndex < MAXOPT

\* The last conjunct of the option loop's condition: *p is the payload marker.
IsMarker(b) == b = 255

\* The while loop of _parse_options_payload.  st holds the locals p,
\* optionIndex and delta, the option slots written so far, and what the
\* loop did: the indices read (rd) and the cursor of each _parse_option
\* call (hpos).
RECURSIVE OptionLoop(_, _, _)
OptionLoop(buf, end, st) ==
  IF SlotFree(st.optionIndex) /\ st.p < end /\ ~IsMarker(Rd(buf, st.p))
  THEN LET o == ParseOption(buf, st.p, end - st.p, st.delta)
           rd == st.rd \cup {st.p} \cup o.rd
           hpos == Append(st.hpos, st.p)
       IN IF o.rc # COAP_SUCCESS
          THEN [st EXCEPT !.rc = o.rc, !.rd = rd, !.hpos = hpos]
          ELSE OptionLoop(buf, end,
                 [rc |-> COAP_SUCCESS, p |-> o.next,
                  optionIndex |-> st.optionIndex + 1, delta |-> o.running,
                  opts |-> Append(st.opts, o.option), rd |-> rd, hpos |-> hpos])
  ELSE [st EXCEPT !.rd = @ \cup (IF SlotFree(st.optionIndex) /\ st.p < end
                                 THEN {st.p} ELSE {})]

\* The end of _parse_options_payload, after the option loop ended in st.
OptionsPayloadEnd(buf, end, st) ==
  IF st.rc # COAP_SUCCESS
  THEN [rc |-> st.rc, numopts |-> MAXOPT, opts |-> st.opts,
        payload |-> BlankView, rd |-> st.rd, hpos |-> st.hpos, stop |-> st.p]
  ELSE [rc |-> COAP_SUCCESS, numopts |-> st.optionIndex, opts |-> st.opts,
        payload |-> IF st.p + 1 < end /\ Rd(buf, st.p) = 255
                    THEN [p |-> st.p + 1, len |-> end - (st.p + 1)]
                    ELSE BlankView,
        rd |-> st.rd \cup (IF st.p + 1 < end THEN {st.p} ELSE {}),
        hpos |-> st.hpos, stop |-> st.p]

\* _parse_options_payload
ParseOptionsPayload(buf, buflen, tkl) ==
  IF HDR_SIZE + tkl > buflen
  THEN [rc |-> COAP_ERR_OPTION_OVERRUNS_PACKET, numopts |-> MAXOPT,
        opts |-> << >>, payload |-> BlankView, rd |-> {}, hpos |-> << >>,
        stop |-> HDR_SIZE + tkl]
  ELSE OptionsPayloadEnd(buf, buflen,
         OptionLoop(buf, buflen,
           [rc |-> COAP_SUCCESS, p |-> HDR_SIZE + tkl, optionIndex |-> 0,
            delta |-> 0, opts |-> << >>, rd |-> {}, hpos |-> << >>]))

\* The packet coap_parse leaves after header h and token t, when
\* _parse_options_payload did o.
ParsedPacket(h, t, o) ==
  [rc |-> o.rc, hdr |-> h.hdr, tok |-> t.tok, numopts |-> o.numopts,
   opts |-> o.opts, payload |-> o.payload, rd |-> h.rd \cup o.rd,
   hpos |-> o.hpos, stop |-> o.stop]

\* coap_parse after _parse_header did h.
ParseAfterHeader(buf, buflen, h) ==
  IF h.rc # COAP_SUCCESS
  THEN [BlankParsed EXCEPT !.rc = h.rc, !.hdr = h.hdr, !.rd = h.rd]
  ELSE IF ParseToken(h.hdr.tkl, buflen).rc # COAP_SUCCESS
  THEN [BlankParsed EXCEPT !.rc = ParseToken(h.hdr.tkl, buflen).rc,
                           !.hdr = h.hdr, !.rd = h.rd]
  ELSE ParsedPacket(h, ParseToken(h.hdr.tkl, buflen),
                    ParseOptionsPayload(buf, buflen, h.hdr.tkl))

\* coap_parse(pkt, buf, buflen): the return code, the fields of pkt it set,
\* the set rd of buffer indices it read, the cursor hpos of every
\* _parse_option call and the cursor stop at which the option loop ended.
coap_parse(buf, buflen) == ParseAfterHeader(buf, buflen, ParseHeader(buf, buflen))

(***************************************************************************)
(* coap_build                                                              *)
(***************************************************************************)
\* _option_nibble(value, &nibble) where *nibble holds nibble0 on entry: a
\* value above 0xFFFF+269 leaves *nibble as it was.
OptionNibbleWide(value, nibble0) ==
  IF value < 16 THEN value
  ELSE IF value <= 255 + 13 THEN 13
  ELSE IF value <= 65535 + 269 THEN 14
  ELSE nibble0
OptionNibble(value, nibble0) ==
  IF value < 13 THEN value
  ELSE IF value <= 255 + 13 THEN 13
  ELSE IF value <= 65535 + 269 THEN 14
  ELSE nibble0

\* The bytes coap_build emits for one option: the header byte, the delta
\* extension, the length extension, the value.
EncodeOption(opt, running_delta) ==
  LET optDelta == U32(opt.num - running_delta)
      L == Len(opt.val)
      delta == OptionNibble(optDelta, 0)
      len == OptionNibble(L, 0)
      deltaExt == IF delta = 13 THEN <<U8(optDelta - 13)>>
                  ELSE IF delta = 14
                  THEN <<U8((optDelta - 269) \div 256), U8(optDelta - 269)>>
                  ELSE << >>
      lenExt == IF len = 13 THEN <<U8(L - 13)>>
                ELSE IF len = 14 THEN <<U8(L \div 256), U8(L - 269)>>
                ELSE << >>
  IN <<U8(delta * 16 + len)>> \o deltaExt \o lenExt \o opt.val

\* The option loop of coap_build from option i on.  out holds the bytes
\* written from buf[0] so far (p - buf = Len(out)), hpos the index of every
\* option header byte written.
RECURSIVE BuildOptions(_, _, _, _, _, _)
BuildOptions(buflen, opts, i, running_delta, out, hpos) ==
  IF i > Len(opts) THEN [rc |-> COAP_SUCCESS, out |-> out, hpos |-> hpos]
  ELSE IF Len(out) > buflen
  THEN [rc |-> COAP_ERR_BUFFER_TOO_SMALL, out |-> out, hpos |-> hpos]
  ELSE BuildOptions(buflen, opts, i + 1, U16(opts[i].num),
                    out \o EncodeOption(opts[i], running_delta),
                    Append(hpos, Len(out)))

\* coap_build(buf, buflen, pkt) with *buflen = buflen on entry: the return
\* code, the bytes out written from buf[0] on (all of them, also those at an
\* index >= buflen), the value of *buflen on return and the indices hpos of
\* the option header bytes.
coap_build(buflen, p) ==
  IF buflen < HDR_SIZE + p.hdr.tkl
  THEN [rc |-> COAP_ERR_BUFFER_TOO_SMALL, out |-> << >>, buflen |-> buflen,
        hpos |-> << >>]
  ELSE
    LET header == <<((p.hdr.ver % 4) * 64) + ((p.hdr.t % 4) * 16) + (p.hdr.tkl % 16),
                    U8(p.hdr.code), U8(p.hdr.id), U8(p.hdr.id \div 256)>>
    IN IF p.hdr.tkl > 0 /\ p.hdr.tkl # Len(p.tok)
       THEN [rc |-> COAP_ERR_UNSUPPORTED, out |-> header, buflen |-> buflen,
             hpos |-> << >>]
       ELSE
         LET o == BuildOptions(buflen, p.opts, 1, 0,
                               header \o SubSeq(p.tok, 1, p.hdr.tkl), << >>)
             opts_len == Len(o.out) - HDR_SIZE
         IN IF o.rc # COAP_SUCCESS
            THEN [rc |-> o.rc, out |-> o.out, buflen |-> buflen,
                  hpos |-> o.hpos]
            ELSE IF Len(p.payload) > 0
            THEN IF buflen < HDR_SIZE + 1 + Len(p.payload) + opts_len
                 THEN [rc |-> COAP_ERR_BUFFER_TOO_SMALL, out |-> o.out,
                       buflen |-> buflen, hpos |-> o.hpos]
                 ELSE [rc |-> COAP_SUCCESS,
                       out |-> o.out \o <<255>> \o p.payload,
                       buflen |-> HDR_SIZE + opts_len + 1 + Len(p.payload),
                       hpos |-> o.hpos]
            ELSE [rc |-> COAP_SUCCESS, out |-> o.out,
                  buflen |-> opts_len + HDR_SIZE, hpos |-> o.hpos]

(***************************************************************************)
(* The codec's inputs.                                                     *)
(***************************************************************************)
MaxBuildOpts == 2      \* options of a packet handed to coap_build
MaxSmallCap == 8       \* the small capacities 0..MaxSmallCap
BigCap == 1024         \* a capacity that holds every packet tried
MaxBody == 4           \* bytes after the header of a received datagram
MaxExtraOpts == 2      \* options beyond MAXOPT in a received datagram
MaxWrapOpts == 3       \* options of a datagram with 2-byte delta extensions

RECURSIVE SeqsUpTo(_, _)
SeqsUpTo(S, n) ==
  IF n = 0 THEN {<< >>}
  ELSE LET shorter == SeqsUpTo(S, n - 1)
       IN shorter \cup {Append(s, x) : s \in {t \in shorter : Len(t) = n - 1}, x \in S}

RECURSIVE Concat(_)
Concat(ss) == IF ss = << >> THEN << >> ELSE Head(ss) \o Concat(Tail(ss))

BuildValues == {<< >>, <<255>>, Fill(15, 98), Fill(269, 99)}
BuildOptChoices == [num : {1, 15, 300}, val : BuildValues]
BuildTokens == {<< >>, <<171, 205>>}
BuildPayloads == {<< >>, <<255, 90>>}

BuildPackets ==
  { [hdr |-> [ver |-> 1, t |-> t, tkl |-> Len(tok), code |-> 1, id |-> 4660],
     tok |-> tok, opts |-> opts, payload |-> payload] :
    t \in {0, 2}, tok \in BuildTokens,
    opts \in SeqsUpTo(BuildOptChoices, MaxBuildOpts),
    payload \in BuildPayloads }

Caps == 0..MaxSmallCap \cup {BigCap}

WireHeaders ==
  {<<64, 1, 0, 1>>, <<65, 1, 0, 2>>, <<0, 1, 0, 5>>, <<73, 1, 0, 1>>}
WireAlphabet == {0, 2, 209, 13, 238, 255, 15, 240}

\* Datagrams: a header and a few arbitrary bytes; a truncated header; up to
\* MAXOPT + MaxExtraOpts one-byte options and an optional payload; options
\* whose deltas use the 2-byte extension.
Wires ==
  { h \o b : h \in WireHeaders, b \in SeqsUpTo(WireAlphabet, MaxBody) }
  \cup { SubSeq(<<64, 1, 0, 1>>, 1, n) : n \in 0..3 }
  \cup { <<64, 1, 0, 1>> \o Fill(n, b) \o tail :
         n \in 0..(MAXOPT + MaxExtraOpts), b \in {0, 16},
         tail \in {<< >>, <<255, 90>>} }
  \cup { <<64, 1, 0, 1>> \o Concat(os) :
         os \in SeqsUpTo({<<224, 254, 0>>, <<176>>, <<0>>}, MaxWrapOpts) }

(***************************************************************************)
(* The codec's caller: it builds a packet into a buffer of cap bytes and   *)
(* hands the bytes to coap_parse, or hands a received datagram to          *)
(* coap_parse.                                                             *)
(***************************************************************************)
InitCodec ==
  /\ \/ /\ pc = "build"
        /\ pkt \in BuildPackets
        /\ cap \in Caps
        /\ wire = << >>
     \/ /\ pc = "recv"
        /\ pkt = BlankPacket
        /\ cap = 0
        /\ wire \in Wires
  /\ built = BlankBuilt
  /\ parsed = BlankParsed
  /\ endpoints = << >>
  /\ IdleDispatch
  /\ IdleLinks

Build ==
  /\ pc = "build"
  /\ LET r == coap_build(cap, pkt)
     IN built' \in Outcomes(r, Len(r.out) > cap)
  /\ pc' = "built"
  /\ UNCHANGED <<pkt, cap, wire, parsed, endpoints, dispatchVars, linkVars>>

\* The caller sends the *buflen bytes of a successful build that stayed
\* inside its buffer.
Loopback ==
  /\ pc = "built"
  /\ built.rc = COAP_SUCCESS
  /\ Len(built.out) <= cap
  /\ wire' = SubSeq(built.out, 1, built.buflen)
  /\ pc' = "loopback"
  /\ UNCHANGED <<pkt, cap, built, parsed, endpoints, dispatchVars, linkVars>>

Parse ==
  /\ pc \in {"recv", "loopback"}
  /\ parsed' = coap_parse(wire, Len(wire))
  /\ pc' = IF pc = "recv" THEN "parsed" ELSE "reparsed"
  /\ UNCHANGED <<pkt, cap, built, wire, endpoints, dispatchVars, linkVars>>

NextCodec == Build \/ Loopback \/ Parse

SpecCodec == InitCodec /\ [][NextCodec]_vars

(***************************************************************************)
(* Properties of the codec.                                                *)
(***************************************************************************)
AfterBuild == pc \in {"built", "loopback", "reparsed"}
AfterParse == pc \in {"parsed", "reparsed"}

\* The bytes an extension of a delta or length v takes on the wire.
ExtLen(v) == IF v < 13 THEN 0 ELSE IF v < 269 THEN 1 ELSE 2

\* The delta of option i of a packet.
DeltaOf(p, i) == p.opts[i].num - (IF i = 1 THEN 0 ELSE p.opts[i - 1].num)

\* The size of the wire form of a packet.
RECURSIVE OptionsSize(_, _)
OptionsSize(p, i) ==
  IF i > Len(p.opts) THEN 0
  ELSE 1 + ExtLen(DeltaOf(p, i)) + ExtLen(Len(p.opts[i].val))
       + Len(p.opts[i].val) + OptionsSize(p, i + 1)
WireSize(p) ==
  HDR_SIZE + p.hdr.tkl + OptionsSize(p, 1)
  + (IF Len(p.payload) > 0 THEN 1 + Len(p.payload) ELSE 0)

\* A packet whose fields lie within the encodable ranges.
Encodable(p) ==
  /\ p.hdr.ver = 1
  /\ p.hdr.tkl \in 0..8
  /\ Len(p.tok) = p.hdr.tkl
  /\ Len(p.opts) <= MAXOPT
  /\ \A i \in 1..Len(p.opts) :
       /\ DeltaOf(p, i) \in 0..(65535 + 269)
       /\ Len(p.opts[i].val) \in 0..(65535 + 269)

\* The parsed packet r, a set of views of buf, equals the packet p.
SamePacket(r, buf, p) ==
  /\ r.hdr = p.hdr
  /\ View(buf, r.tok) = p.tok
  /\ r.numopts = Len(p.opts)
  /\ Len(r.opts) = Len(p.opts)
  /\ \A i \in 1..Len(p.opts) :
       i <= Len(r.opts) =>
         /\ r.opts[i].num = p.opts[i].num
         /\ View(buf, r.opts[i]) = p.opts[i].val
  /\ View(buf, r.payload) = p.payload

\* C1: round trip.  Building an encodable packet into a buffer that is large
\* enough succeeds, and parsing the bytes built succeeds and yields the
\* packet, field by field.
C1_RoundTrip ==
  (AfterBuild /\ Encodable(pkt) /\ cap >= WireSize(pkt)) =>
    /\ built.rc = COAP_SUCCESS
    /\ pc = "reparsed" =>
         /\ parsed.rc = COAP_SUCCESS
         /\ SamePacket(parsed, wire, pkt)

ViewInside(v, buflen) == v.len = 0 \/ (v.p >= 0 /\ v.p + v.len <= buflen)

\* C2: bounded parse.  coap_parse returns success or a defined error, reads
\* no byte outside [0, buflen), and on success every view it records lies
\* inside [0, buflen).
C2_BoundedParse ==
  AfterParse =>
    /\ parsed.rc \in {COAP_SUCCESS} \cup ParseErrors
    /\ \A i \in parsed.rd : i >= 0 /\ i < Len(wire)
    /\ parsed.rc = COAP_SUCCESS =>
         /\ ViewInside(parsed.tok, Len(wire))
         /\ ViewInside(parsed.payload, Len(wire))
         /\ \A i \in 1..Len(parsed.opts) : ViewInside(parsed.opts[i], Len(wire))

\* A received datagram whose last option has its delta in an extension byte
\* and its value in the last byte of the buffer.
C2_Witness ==
  /\ pc = "parsed"
  /\ parsed.rc = COAP_SUCCESS
  /\ parsed.numopts >= 1
  /\ parsed.opts[parsed.numopts].len > 0
  /\ parsed.opts[parsed.numopts].num >= 13
  /\ parsed.opts[parsed.numopts].p + parsed.opts[parsed.numopts].len = Len(wire)
  /\ parsed.opts[parsed.numopts].p - 1 \in parsed.rd

\* C3: bounded build.  coap_build writes no byte at an index >= the
\* capacity, and on success the length it reports is the number of bytes it
\* wrote and does not exceed the capacity.
C3_BoundedBuild ==
  AfterBuild =>
    /\ Len(built.out) <= cap
    /\ built.rc = COAP_SUCCESS =>
         /\ built.buflen = Len(built.out)
         /\ built.buflen <= cap

\* C4: sorted options.  After a successful coap_parse the option numbers
\* are non-decreasing.
C4_SortedOptions ==
  (AfterParse /\ parsed.rc = COAP_SUCCESS) =>
    \A i \in 2..Len(parsed.opts) : parsed.opts[i].num >= parsed.opts[i - 1].num

\* C5: payload-marker exclusivity.  No option header byte written by a
\* successful coap_build is 0xFF; coap_parse decodes no option at a byte
\* 0xFF, and when its option loop meets 0xFF at an option header position
\* the loop ends there: every option decoded starts and ends before it.
C5_MarkerExclusive ==
  /\ (AfterBuild /\ built.rc = COAP_SUCCESS) =>
       \A i \in 1..Len(built.hpos) : built.out[built.hpos[i] + 1] # 255
  /\ AfterParse =>
       /\ \A i \in 1..Len(parsed.hpos) : Rd(wire, parsed.hpos[i]) # 255
       /\ (/\ parsed.rc = COAP_SUCCESS
           /\ parsed.stop < Len(wire)
           /\ Rd(wire, parsed.stop) = 255) =>
            /\ parsed.numopts = Len(parsed.hpos)
            /\ \A i \in 1..Len(parsed.hpos) : parsed.hpos[i] < parsed.stop
            /\ \A i \in 1..Len(parsed.opts) :
                 parsed.opts[i].p + parsed.opts[i].len <= parsed.stop

\* A packet with options and a payload was built, and the parse of its bytes
\* stopped its option loop at the marker with bytes left after it.
C5_Witness ==
  /\ pc = "reparsed"
  /\ Len(built.hpos) = MaxBuildOpts
  /\ parsed.rc = COAP_SUCCESS
  /\ parsed.numopts >= 1
  /\ parsed.stop + 1 < Len(wire)
  /\ Rd(wire, parsed.stop) = 255

\* The datagram of n one-byte options b (delta b \div 16, no value).
ManyOptions(n, b, tail) == <<64, 1, 0, 1>> \o Fill(n, b) \o tail

\* C9: truncation at MAXOPT.  A successful coap_parse leaves numopts <=
\* MAXOPT and writes no option slot of index >= MAXOPT; of a well-formed
\* message with more than MAXOPT options it returns success with numopts =
\* MAXOPT and the first MAXOPT options in wire order.
C9_Truncation ==
  AfterParse =>
    /\ Len(parsed.opts) <= MAXOPT
    /\ parsed.rc = COAP_SUCCESS =>
         /\ parsed.numopts <= MAXOPT
         /\ parsed.numopts = Len(parsed.opts)
    /\ \A n \in (MAXOPT + 1)..(MAXOPT + MaxExtraOpts), b \in {0, 16},
          tail \in {<< >>, <<255, 90>>} :
         wire = ManyOptions(n, b, tail) =>
           /\ parsed.rc = COAP_SUCCESS
           /\ parsed.numopts = MAXOPT
           /\ \A k \in 1..MAXOPT :
                parsed.opts[k] = [num |-> k * (b \div 16),
                                  p |-> HDR_SIZE + k, len |-> 0]

\* A datagram of more than MAXOPT options was parsed, and bytes of it were
\* left undecoded.
C9_Witness ==
  /\ pc = "parsed"
  /\ wire = ManyOptions(MAXOPT + MaxExtraOpts, 16, <<255, 90>>)
  /\ parsed.rc = COAP_SUCCESS
  /\ parsed.numopts = MAXOPT
  /\ parsed.stop < Len(wire)

(***************************************************************************)
(* The request dispatcher.  An endpoint is [method, path, ct, handler]; the *)
(* table is the sequence of the endpoints before the sentinel whose handler *)
(* is null.  A path is the sequence elems[0..count-1] of its segments, each *)
(* a C string: a sequence of bytes other than 0.  The request is a packet   *)
(* whose option values are held as the bytes they view.                     *)
(***************************************************************************)
\* The scan of _find_options from option i on (i counts from 1; first is the
\* index of the first match, or NULL).
RECURSIVE FindFrom(_, _, _, _, _)
FindFrom(opts, num, i, first, count) ==
  IF i > Len(opts) THEN [first |-> first, count |-> count]
  ELSE IF opts[i].num = num
  THEN FindFrom(opts, num, i + 1, IF first = NULL THEN i ELSE first,
                U8(count + 1))
  ELSE IF opts[i].num > num THEN [first |-> first, count |-> count]
  ELSE IF first # NULL THEN [first |-> first, count |-> count]
  ELSE FindFrom(opts, num, i + 1, first, count)

\* _find_options
FindOptions(p, num) == FindFrom(p.opts, num, 1, NULL, 0)

\* The inner loop of coap_handle_request: the i at which it ends, comparing
\* opt[i] with elems[i] by length (strlen) and content (memcmp).
RECURSIVE MatchSegments(_, _, _, _, _)
MatchSegments(opts, first, elems, count, i) ==
  IF i >= count THEN i
  ELSE IF Len(opts[first + i].val) # Len(elems[i + 1]) THEN i
  ELSE IF opts[first + i].val # elems[i + 1] THEN i
  ELSE MatchSegments(opts, first, elems, count, i + 1)

\* The endpoint loop of coap_handle_request from endpoint k on: the index of
\* the endpoint whose handler it calls, or 0 when the loop ends without.
RECURSIVE FindEndpoint(_, _, _, _)
FindEndpoint(eps, req, found, k) ==
  IF k > Len(eps) \/ found.first = NULL THEN 0
  ELSE IF /\ eps[k].method = req.hdr.code
          /\ found.count = Len(eps[k].path)
          /\ MatchSegments(req.opts, found.first, eps[k].path,
                           found.count, 0) = found.count
  THEN k
  ELSE FindEndpoint(eps, req, found, k + 1)

\* coap_make_response(scratch, pkt, content, content_len, msgid, tok,
\* rspcode, content_type) with tok non-null: the return code, the packet and
\* the scratch bytes it leaves.  Of the option array only opts[0] is
\* touched; ct16 is (uint16_t)content_type.
coap_make_response(scr, out, content, content_len, msgid, tok, rspcode, ct) ==
  LET ct16 == U16(ct + 65536)
      p1 == [out EXCEPT !.hdr = [ver |-> 1, t |-> COAP_TYPE_ACK,
                                 tkl |-> Len(tok), code |-> rspcode,
                                 id |-> msgid],
                        !.numopts = 1,
                        !.tok = tok,
                        !.opts0.num = COAP_OPTION_CONTENT_FORMAT,
                        !.opts0.p = 0]
  IN IF Len(scr) < 2
     THEN [rc |-> COAP_ERR_BUFFER_TOO_SMALL, outpkt |-> p1, scratch |-> scr]
     ELSE [rc |-> COAP_SUCCESS,
           outpkt |-> [p1 EXCEPT !.opts0.len = 2,
                                 !.payload = [p |-> content,
                                              len |-> content_len]],
           scratch |-> [scr EXCEPT ![1] = ct16 \div 256, ![2] = ct16 % 256]]

\* What coap_handle_request returns after coap_make_response returned mrc.
NotFoundRcPropagated(mrc) == mrc
NotFoundRc(mrc) == COAP_SUCCESS

\* coap_handle_request(endpoints, scratch, inpkt, outpkt), where hret[k] is
\* what the handler of endpoint k returns when called.  A handler is code
\* of the application: the model records the call and what it returned
\* (calls) and lets it leave scratch and outpkt as they were.  mrc is the return code of
\* coap_make_response, when that was called.
coap_handle_request(eps, scr, req, out, hret) ==
  LET found == FindOptions(req, COAP_OPTION_URI_PATH)
      k == FindEndpoint(eps, req, found, 1)
  IN IF k # 0
     THEN [rc |-> hret[k], calls |-> <<[ep |-> k, ret |-> hret[k]]>>,
           mrc |-> COAP_SUCCESS,
           outpkt |-> out, scratch |-> scr]
     ELSE LET m == coap_make_response(scr, out, NULL, 0, req.hdr.id, req.tok,
                                      COAP_RSPCODE_NOT_FOUND,
                                      COAP_CONTENTTYPE_NONE)
          IN [rc |-> NotFoundRc(m.rc), calls |-> << >>, mrc |-> m.rc,
              outpkt |-> m.outpkt, scratch |-> m.scratch]

(***************************************************************************)
(* The dispatcher's inputs.                                                *)
(***************************************************************************)
MaxEndpoints == 2      \* endpoints of a table
MaxScratch == 2        \* bytes of the scratch buffer

SegA == <<97>>
SegB == <<98>>
Paths == {<< >>, <<SegA>>, <<SegA, SegB>>}
Methods == {1, 2}

RECURSIVE Tables(_, _)
Tables(choices, n) ==
  IF n = 0 THEN {<< >>}
  ELSE LET shorter == Tables(choices, n - 1)
       IN shorter \cup
          { Append(t, [c EXCEPT !.handler = n]) :
            t \in {u \in shorter : Len(u) = n - 1}, c \in choices }

DispatchTables ==
  Tables([method : Methods, path : Paths, ct : {0}, handler : {0}],
         MaxEndpoints)

\* Requests as coap_parse leaves them: options in ascending order, the
\* Uri-Path options between an optional lower and an optional higher one.
Requests ==
  { [hdr |-> [ver |-> 1, t |-> 0, tkl |-> Len(tok), code |-> m, id |-> 7],
     tok |-> tok,
     opts |-> around[1] \o [i \in 1..Len(segs) |->
                       [num |-> COAP_OPTION_URI_PATH, val |-> segs[i]]]
              \o around[2],
     payload |-> << >>] :
    m \in Methods, tok \in {<< >>, <<9>>},
    segs \in Paths \cup {<<SegB>>, <<SegA, SegA>>},
    around \in { << << >>, << >> >>,
                 << <<[num |-> 3, val |-> SegA]>>, << >> >>,
                 << <<[num |-> 3, val |-> SegA]>>,
                    <<[num |-> 12, val |-> <<0>>]>> >> } }

\* The response packet before the call holds whatever its memory held: all
\* zero, or an earlier response.
StaleOuts ==
  { BlankOut,
    [hdr |-> [ver |-> 1, t |-> 0, tkl |-> 1, code |-> 69, id |-> 6],
     tok |-> <<8>>, numopts |-> 3,
     opts0 |-> [num |-> 11, p |-> 4, len |-> 5],
     payload |-> [p |-> 0, len |-> 3]] }

HandlerRcs == {COAP_SUCCESS, COAP_ERR_BUFFER_TOO_SMALL}

InitDispatch ==
  /\ pc = "request"
  /\ endpoints \in DispatchTables
  /\ scratch \in {Fill(n, 0) : n \in 0..MaxScratch}
  /\ inpkt \in Requests
  /\ outpkt \in StaleOuts
  /\ handled = BlankHandled
  /\ IdleCodec
  /\ IdleLinks

HandleRequest ==
  /\ pc = "request"
  /\ \E hret \in [1..Len(endpoints) -> HandlerRcs] :
       LET r == coap_handle_request(endpoints, scratch, inpkt, outpkt, hret)
       IN /\ outpkt' = r.outpkt
          /\ scratch' = r.scratch
          /\ handled' = [rc |-> r.rc, calls |-> r.calls, mrc |-> r.mrc,
                         outpkt0 |-> outpkt, scratch0 |-> scratch]
  /\ pc' = "handled"
  /\ UNCHANGED <<codecVars, endpoints, inpkt, linkVars>>

NextDispatch == HandleRequest

SpecDispatch == InitDispatch /\ [][NextDispatch]_vars

(***************************************************************************)
(* Properties of the dispatcher.                                           *)
(***************************************************************************)
\* The Uri-Path segments of a request, in order.
UriPath(req) ==
  LET IsPath(o) == o.num = COAP_OPTION_URI_PATH
      sel == SelectSeq(req.opts, IsPath)
  IN [i \in 1..Len(sel) |-> sel[i].val]

\* An endpoint matches a request: same method, same number of segments,
\* every segment byte-equal.
Matches(ep, req) ==
  /\ ep.method = req.hdr.code
  /\ Len(ep.path) = Len(UriPath(req))
  /\ \A i \in 1..Len(ep.path) : ep.path[i] = UriPath(req)[i]

Matching(eps, req) == {k \in 1..Len(eps) : Matches(eps[k], req)}

\* C6: not-found synthesis.  When no endpoint matches, no handler is called
\* and the response is an ACK of version 1 with code 4.04, the request's
\* message id and token, and an empty payload.
C6_NotFound ==
  (pc = "handled" /\ Matching(endpoints, inpkt) = {}) =>
    /\ handled.calls = << >>
    /\ outpkt.hdr.ver = 1
    /\ outpkt.hdr.t = COAP_TYPE_ACK
    /\ outpkt.hdr.code = COAP_RSPCODE_NOT_FOUND
    /\ outpkt.hdr.id = inpkt.hdr.id
    /\ outpkt.hdr.tkl = inpkt.hdr.tkl
    /\ outpkt.tok = inpkt.tok
    /\ outpkt.payload.len = 0

\* C7: dispatch determinism.  When two or more endpoints match, exactly one
\* handler is called, that of the first matching endpoint of the table, and
\* what it returns is returned.
C7_FirstMatchWins ==
  (pc = "handled" /\ Cardinality(Matching(endpoints, inpkt)) >= 2) =>
    LET m == Matching(endpoints, inpkt)
        k == CHOOSE j \in m : \A h \in m : j <= h
    IN /\ Len(handled.calls) = 1
       /\ handled.calls[1].ep = k
       /\ handled.rc = handled.calls[1].ret

\* C10: when no handler is called coap_handle_request returns success with
\* numopts = 1 for every scratch length; with a scratch of fewer than 2
\* bytes coap_make_response has returned BufferTooSmall, no byte of scratch
\* is written and the length of the Content-Format option is left as it was.
C10_NotFoundSucceeds ==
  (pc = "handled" /\ handled.calls = << >>) =>
    /\ handled.rc = COAP_SUCCESS
    /\ outpkt.numopts = 1
    /\ Len(handled.scratch0) < 2 =>
         /\ handled.mrc = COAP_ERR_BUFFER_TOO_SMALL
         /\ scratch = handled.scratch0
         /\ outpkt.opts0.len = handled.outpkt0.opts0.len
    /\ Len(handled.scratch0) >= 2 =>
         /\ handled.mrc = COAP_SUCCESS
         /\ outpkt.opts0.len = 2

\* No handler was called with a scratch of one byte: success is returned and
\* the Content-Format option keeps a stale length other than 2.
C10_Witness ==
  /\ pc = "handled"
  /\ handled.calls = << >>
  /\ Len(handled.scratch0) = 1
  /\ handled.rc = COAP_SUCCESS
  /\ outpkt.numopts = 1
  /\ outpkt.opts0.len = 5

(***************************************************************************)
(* coap_build_endpoints.  The characters are their codes; mem holds the    *)
(* caller's buffer (indices below buflen) and the memory behind it, which  *)
(* the model takes to be writable and zero; hi is the highest index        *)
(* written plus one.                                                       *)
(***************************************************************************)
Max(a, b) == IF a > b THEN a ELSE b
Min(a, b) == IF a < b THEN a ELSE b

RECURSIVE Digits(_)
Digits(n) == IF n < 10 THEN <<48 + n>> ELSE Digits(n \div 10) \o <<48 + (n % 10)>>

\* strlen(buf)
RECURSIVE StrlenFrom(_, _)
StrlenFrom(mem, i) ==
  IF i >= Len(mem) \/ mem[i + 1] = 0 THEN i ELSE StrlenFrom(mem, i + 1)
Strlen(mem) == StrlenFrom(mem, 0)

\* The characters chars stored at buf[pos] on.
Store(m, pos, chars) ==
  [mem |-> [i \in 1..Max(Len(m.mem), pos + Len(chars)) |->
              IF i - 1 >= pos /\ i - 1 < pos + Len(chars) THEN chars[i - pos]
              ELSE IF i <= Len(m.mem) THEN m.mem[i]
              ELSE 0],
   hi |-> Max(m.hi, pos + Len(chars))]

\* strncat(buf, src, n): an int n below 0 is a size_t larger than any string.
Strncat(m, src, n) ==
  LET count == IF n < 0 THEN Len(src) ELSE Min(n, Len(src))
  IN Store(m, Strlen(m.mem), SubSeq(src, 1, count) \o <<0>>)

\* The inner loop of coap_build_endpoints over the path elements from i on.
RECURSIVE LinkPath(_, _, _, _)
LinkPath(elems, i, m, len) ==
  IF i > Len(elems) THEN [m |-> m, len |-> len]
  ELSE LET m1 == Strncat(m, <<47>>, len)
           m2 == Strncat(m1, elems[i], len - 1)
       IN LinkPath(elems, i + 1, m2, len - 1 - Len(elems[i]))

\* One pass of the endpoint loop for an endpoint with a content type.
LinkEntry(ep, m, len, buflen) ==
  LET comma == Strlen(m.mem) > 0
      m1 == IF comma THEN Strncat(m, <<44>>, len) ELSE m
      len1 == IF comma THEN len - 1 ELSE len
      m2 == Strncat(m1, <<60>>, len1)
      pa == LinkPath(ep.path, 1, m2, len1 - 1)
      m3 == Strncat(pa.m, <<62, 59>>, pa.len)
      len3 == pa.len - 2
      ct == <<99, 116, 61>> \o Digits(ep.ct)
      m4 == Store(m3, buflen - len3 - 1, ct \o <<0>>)
  IN [m |-> m4, len |-> len3 - Len(ct)]

\* The endpoint loop of coap_build_endpoints from endpoint k on.
RECURSIVE LinkLoop(_, _, _, _, _)
LinkLoop(eps, k, m, len, buflen) ==
  IF k > Len(eps) THEN [rc |-> COAP_SUCCESS, mem |-> m.mem, hi |-> m.hi]
  ELSE IF 0 > len
  THEN [rc |-> COAP_ERR_BUFFER_TOO_SMALL, mem |-> m.mem, hi |-> m.hi]
  ELSE IF eps[k].ct = COAP_CONTENTTYPE_NONE
  THEN LinkLoop(eps, k + 1, m, len, buflen)
  ELSE LET e == LinkEntry(eps[k], m, len, buflen)
       IN LinkLoop(eps, k + 1, e.m, e.len, buflen)

\* coap_build_endpoints(endpoints, buf, buflen): the return code, the memory
\* from buf[0] on and the highest index written plus one.
coap_build_endpoints(eps, buflen) ==
  IF buflen < 4
  THEN [rc |-> COAP_ERR_BUFFER_TOO_SMALL, mem |-> << >>, hi |-> 0]
  ELSE LinkLoop(eps, 1, [mem |-> Fill(buflen, 0), hi |-> buflen],
                buflen - 1, buflen)

(***************************************************************************)
(* The link format's inputs and caller.                                    *)
(***************************************************************************)
MaxLinkCap == 26       \* the capacities 0..MaxLinkCap

LinkTables ==
  Tables([method : {1}, path : Paths, ct : {COAP_CONTENTTYPE_NONE, 0, 40},
          handler : {0}], MaxEndpoints)

InitLinks ==
  /\ pc = "links"
  /\ endpoints \in LinkTables
  /\ linkcap \in 0..MaxLinkCap
  /\ linked = BlankLinked
  /\ IdleDispatch
  /\ IdleCodec

BuildEndpoints ==
  /\ pc = "links"
  /\ LET r == coap_build_endpoints(endpoints, linkcap)
     IN linked' \in Outcomes(r, r.hi > linkcap)
  /\ pc' = "linked"
  /\ UNCHANGED <<codecVars, endpoints, dispatchVars, linkcap>>

NextLinks == BuildEndpoints

SpecLinks == InitLinks /\ [][NextLinks]_vars

\* The link-format text of a table: the entries </seg1/seg2>;ct=N of the
\* endpoints with a content type, joined by commas.
RECURSIVE PathText(_)
PathText(elems) ==
  IF elems = << >> THEN << >> ELSE <<47>> \o Head(elems) \o PathText(Tail(elems))
RECURSIVE LinkText(_, _)
LinkText(eps, first) ==
  IF eps = << >> THEN << >>
  ELSE IF Head(eps).ct = COAP_CONTENTTYPE_NONE THEN LinkText(Tail(eps), first)
  ELSE (IF first THEN << >> ELSE <<44>>) \o <<60>> \o PathText(Head(eps).path)
       \o <<62, 59, 99, 116, 61>> \o Digits(Head(eps).ct)
       \o LinkText(Tail(eps), FALSE)

\* C8: bounded link-format emission.  coap_build_endpoints writes no
\* character at an index >= buflen; it returns BufferTooSmall whenever the
\* text and its NUL do not fit; on success the buffer holds the text,
\* NUL-terminated.
C8_BoundedLinks ==
  pc = "linked" =>
    LET text == LinkText(endpoints, TRUE)
    IN /\ linked.hi <= linkcap
       /\ Len(text) + 1 > linkcap => linked.rc = COAP_ERR_BUFFER_TOO_SMALL
       /\ linked.rc = COAP_SUCCESS =>
            /\ Strlen(linked.mem) < linkcap
            /\ SubSeq(linked.mem, 1, Strlen(linked.mem)) = text

====
